---- MODULE Spec2Model ----
(***************************************************************************)
(* A model of the undertheradar-vpn data plane:                            *)
(*   - the XDP packet filter with its token-bucket rate limiter            *)
(*     (vpn-core/src/ebpf/xdp_accelerator.c),                              *)
(*   - the TC egress program: DSCP marking and pacing (same file),         *)
(*   - peer routing, the handshake retry timer, the kill switch, the hop   *)
(*     chain and the transmit path (vpn-core/src/wireguard_manager.c).     *)
(*                                                                         *)
(* __u64 values are kept as their residues modulo 2^64 nearest to zero:    *)
(* the value 2^64 - k is the integer -k.  Addition and subtraction are     *)
(* then the integer ones as long as a value stays within 2^31 of zero,     *)
(* which every value of the model does; the unsigned comparison is U64Gt.  *)
(***************************************************************************)
EXTENDS Integers, Naturals, Sequences, FiniteSets, TLC

VARIABLES
    now,             \* bpf_ktime_get_ns(): the monotonic clock, in ns
    rate_limit_map,  \* the entries of two observed source addresses
    n_other,         \* number of entries the map holds for all other addresses
    hist,            \* per observed source: what an observer of the verdicts records
    wk,              \* per worker inside check_rate_limit: its position and registers
    race0,           \* the entry of IPA when the two workers started
    stats,           \* stats_map[0] of the CPU that runs the filter
    flow_table,      \* flow_key -> flow_state
    xdp,             \* the packet xdp_vpn_filter handled last, and its verdict
    peer_list,       \* wg->peer_list, in list order
    route,           \* the outcome of undertheradar_routing_lookup for the skb at hand
    jiffies,         \* the kernel's tick counter
    peer,            \* the handshake fields of one peer and its retransmit timer
    hs,              \* what an observer of that peer's retry timer records
    rm,              \* the peer's removal, and what its timer callback did afterwards
    ks,              \* wg->kill_switch_enabled, the installed rules, the last call
    hop,             \* wg->hop_chain, the effective route, undertheradar_add_hop's position
    tx,              \* one call of undertheradar_xmit: its segments and its outcome
    tc,              \* one packet at tc_vpn_egress: the skb before and after
    rx,              \* wg->rx_queue and one call of undertheradar_poll
    session          \* whether the peer's handshake was answered, and what followed

rlVars == <<now, rate_limit_map, n_other, hist>>

raceVars == <<wk, race0>>

xdpVars == <<stats, flow_table, xdp>>

routeVars == <<peer_list, route>>

hsVars == <<jiffies, peer, hs, rm>>

devVars == <<ks, hop, tx>>

tcVars == <<tc>>

pollVars == <<rx>>

sessVars == <<session>>

vars == <<rlVars, raceVars, xdpVars, routeVars, hsVars, devVars, tcVars,
          pollVars, sessVars>>

----------------------------------------------------------------------------
(* Program constants *)

rate == 10000

burst == 1000

NSEC_PER_SEC == 1000000000

RATE_LIMIT_MAX_ENTRIES == 100000

WIREGUARD_PORT == 51820

WIREGUARD_MESSAGE_HANDSHAKE_INITIATION == 1

WIREGUARD_MESSAGE_DATA == 4

\* sizeof(struct ethhdr), sizeof(struct iphdr), sizeof(struct udphdr),
\* sizeof(struct wireguard_header), sizeof(struct tcphdr)
ETH_HLEN == 14

IP_HLEN == 20

UDP_HLEN == 8

WG_HLEN == 16

TCP_HLEN == 20

\* is_ddos_pattern: the slack of the length check and the lowest TTL let through
LEN_SLACK == 64

MIN_TTL == 5

(* Bounds of the model *)

\* the clock of the general specifications runs over 0 .. MaxTicks half-token
\* periods, which keeps (now - last_update) * rate below 2^31
MaxTicks == 3

\* the observer's packet counters saturate at burst + CountSlack
CountSlack == 12

\* the observer's drop-run counter saturates at DropRunCap
DropRunCap == 6

----------------------------------------------------------------------------
(* Helpers *)

Max(a, b) == IF a >= b THEN a ELSE b

Min(a, b) == IF a <= b THEN a ELSE b

\* a > b for two __u64 values given as residues
U64Gt(a, b) == IF (a < 0) = (b < 0) THEN a > b ELSE a < 0

\* the time in which one token accrues, and the half of it
TokNs == NSEC_PER_SEC \div rate

HalfTok == NSEC_PER_SEC \div (2 * rate)

IPA == "10.0.0.5"

IPB == "10.0.0.6"

IPs == {IPA, IPB}

NoEntry == [absent |-> TRUE]

MaxCount == burst + CountSlack

----------------------------------------------------------------------------
(* rate_limit_map: BPF_MAP_TYPE_HASH, max_entries 100000 *)

MapCount(map, others) == Cardinality({ip \in IPs : map[ip] # NoEntry}) + others

\* bpf_map_lookup_elem
MapLookup(map, key) == map[key]

\* bpf_map_update_elem(.., BPF_ANY) on a plain hash map: an existing key is
\* overwritten, a new key is inserted while the map has room, and a new key
\* of a full map is refused (-E2BIG) with the map left as it is.  Nothing is
\* evicted.
MapUpdate(map, others, key, val) ==
    IF map[key] # NoEntry \/ MapCount(map, others) < RATE_LIMIT_MAX_ENTRIES
    THEN [map EXCEPT ![key] = val]
    ELSE map

----------------------------------------------------------------------------
(* check_rate_limit *)

\* tokens_to_add = (now - rl->last_update) * rate / 1000000000
TokensToAdd(t, last_update) == ((t - last_update) * rate) \div NSEC_PER_SEC

\* rl->tokens = rl->tokens + tokens_to_add; if (rl->tokens > burst) rl->tokens = burst;
Refill(tokens, tokens_to_add) ==
    LET sum == tokens + tokens_to_add
    IN  IF U64Gt(sum, burst) THEN burst ELSE sum

ConsumeNoGuard(tokens) == [ret |-> TRUE, tokens |-> tokens - 1]

\* if (rl->tokens > 0) { rl->tokens--; return true; } return false;
Consume(tokens) ==
    IF U64Gt(tokens, 0)
    THEN [ret |-> TRUE, tokens |-> tokens - 1]
    ELSE [ret |-> FALSE, tokens |-> tokens]

\* the whole call at clock value t: the value returned and the map afterwards
check_rate_limit(map, others, src_ip, t) ==
    LET rl == MapLookup(map, src_ip)
    IN  IF rl = NoEntry
        THEN [ret |-> TRUE,
              map |-> MapUpdate(map, others, src_ip,
                                [tokens |-> burst, last_update |-> t])]
        ELSE LET c == Consume(Refill(rl.tokens, TokensToAdd(t, rl.last_update)))
             IN  [ret |-> c.ret,
                  map |-> [map EXCEPT ![src_ip] =
                               [tokens |-> c.tokens, last_update |-> t]]]

----------------------------------------------------------------------------
(* The observer of one source: packets sent and accepted (saturating), the  *)
(* time of the last packet, the current run of drops (saturating), and      *)
(* excess = TokNs * max over all windows [s, now] of                        *)
(*            (accepted in the window) - rate * (now - s) / 1e9,            *)
(* which obeys excess' = max(excess - gap, 0) + TokNs * accepted'.          *)

NoHist == [sent |-> 0, accepted |-> 0, last |-> 0, excess |-> 0, dropRun |-> 0]

Observe(h, t, ret) ==
    [sent     |-> Min(h.sent + 1, MaxCount),
     accepted |-> IF ret THEN Min(h.accepted + 1, MaxCount) ELSE h.accepted,
     last     |-> t,
     excess   |-> Max(h.excess - (t - h.last), 0) + (IF ret THEN TokNs ELSE 0),
     dropRun  |-> IF ret THEN 0 ELSE Min(h.dropRun + 1, DropRunCap)]

\* a tunnel packet of source ip reaches the rate limiter dt ns after the previous packet
Packet(ip, dt) ==
    LET t == now + dt
        r == check_rate_limit(rate_limit_map, n_other, ip, t)
    IN  /\ now' = t
        /\ rate_limit_map' = r.map
        /\ hist' = [hist EXCEPT ![ip] = Observe(hist[ip], t, r.ret)]
        /\ UNCHANGED <<n_other, raceVars, xdpVars, routeVars, hsVars, devVars,
                       tcVars, pollVars, sessVars>>

Workers == {"cpu0", "cpu1"}

WorkerIdle == [pc |-> "idle", t |-> 0, add |-> 0, reg |-> 0, ret |-> "none"]

RaceIdle ==
    /\ wk = [w \in Workers |-> WorkerIdle]
    /\ race0 = NoEntry

NoPacket == [none |-> TRUE]

\* the filter has handled no packet: xdp holds the packet handled last, the
\* verdict, whether check_rate_limit ran and what it returned (rl), whether
\* flow_table was looked up and with what result (flow), whether
\* is_ddos_pattern ran (ddos), the state the packet met (t, stats0, flows0,
\* entry0), and the flows whose data packets were accepted before (accepted0)
\* and up to now (accepted)
NoXdp ==
    [pkt |-> NoPacket, verdict |-> "none", rl |-> "none", flow |-> "none",
     ddos |-> FALSE, t |-> 0,
     stats0 |-> [rx_packets |-> 0, rx_bytes |-> 0, dropped_packets |-> 0],
     flows0 |-> <<>>, entry0 |-> NoEntry, accepted0 |-> {}, accepted |-> {}]

XdpIdle ==
    /\ stats = [rx_packets |-> 0, rx_bytes |-> 0, dropped_packets |-> 0]
    /\ flow_table = <<>>
    /\ xdp = NoXdp

RouteIdle ==
    /\ peer_list = <<>>
    /\ route = [done |-> FALSE, best |-> 0]

NotRemoved == [removed |-> FALSE, running |-> FALSE, sent |-> 0, armed |-> FALSE]

HsIdle ==
    /\ jiffies = 0
    /\ peer = [handshake_failures |-> 0, handshake_retry_interval |-> 0,
               endpoint |-> "primary", timer_expires |-> 0, timer_pending |-> FALSE]
    /\ hs = [base |-> 0, failures0 |-> 0, expiries |-> 0, fired_at |-> 0,
             sent |-> 0, switched |-> FALSE]
    /\ rm = NotRemoved

KsIdle ==
    [kill_switch_enabled |-> FALSE, rules |-> <<>>, ret |-> "none", calls |-> 0,
     again |-> 0]

HopIdle ==
    [chain |-> <<>>, route |-> <<>>, pc |-> "idle", ret |-> "none", calls |-> 0,
     chain0 |-> <<>>, route0 |-> <<>>, seen |-> [chain |-> <<>>, route |-> <<>>]]

TxIdle ==
    [pc |-> "idle", calls |-> 0, n |-> 0, path |-> "none", queued |-> <<>>,
     freed |-> {}, tx_errors |-> 0, tx_errors0 |-> 0, dev_tx_errors |-> 0,
     send_now |-> 0, ret |-> "none"]

DevIdle ==
    /\ ks = KsIdle
    /\ hop = HopIdle
    /\ tx = TxIdle

TcIdle == tc = [pc |-> "idle"]

NoPoll ==
    [pc |-> "idle", queue |-> <<>>, arrived |-> 0, budget |-> 0, work_done |-> 0,
     delivered |-> <<>>, freed |-> {}, rx_errors |-> 0, complete |-> FALSE,
     ret |-> 0]

PollIdle == rx = NoPoll

NoSession == [state |-> "none", sent_after |-> FALSE]

SessIdle == session = NoSession

InitRL ==
    /\ RaceIdle
    /\ XdpIdle
    /\ DevIdle
    /\ TcIdle
    /\ PollIdle
    /\ SessIdle
    /\ HsIdle
    /\ RouteIdle
    /\ now = 0
    /\ rate_limit_map = [ip \in IPs |-> NoEntry]
    /\ n_other = 0
    /\ hist = [ip \in IPs |-> NoHist]

----------------------------------------------------------------------------
(* Spec: one worker, one source, the map with room, a non-decreasing clock *)

Init == InitRL

SendA ==
    \E k \in 0..MaxTicks :
        /\ now + k * HalfTok <= MaxTicks * HalfTok
        /\ Packet(IPA, k * HalfTok)

Next == SendA

Spec == Init /\ [][Next]_vars

\* C1: for one source, the number of accepted calls in any window of length T
\* is below burst + rate*T + 1 (the bound burst + rate*T, within rounding),
\* the window that starts with the first packet included
C1_WindowBound == hist[IPA].excess < (burst + 1) * TokNs

\* C3: every entry holds between 0 and burst tokens, when it is created and
\* after every refill-and-consume step
C3_TokensInRange ==
    \A ip \in IPs :
        rate_limit_map[ip] # NoEntry =>
            /\ rate_limit_map[ip].tokens >= 0
            /\ ~U64Gt(rate_limit_map[ip].tokens, burst)

\* an entry that was created, refilled, drained to zero and then refused a packet
C3_Witness ==
    /\ rate_limit_map[IPA] # NoEntry
    /\ rate_limit_map[IPA].tokens = 0
    /\ hist[IPA].dropRun > 0
    /\ hist[IPA].accepted > burst + 1

----------------------------------------------------------------------------
(* SpecEven: one source sends a packet every 1e9 / (2 * rate) ns = 50 us,   *)
(* which is 20,000 packets/s against rate 10,000/s                          *)

SendEven ==
    /\ hist[IPA].sent < MaxCount
    /\ Packet(IPA, HalfTok)

NextEven == SendEven

SpecEven == Init /\ [][NextEven]_vars

\* C2: the first burst packets are accepted, and afterwards tokens regenerate:
\* the source never sees DropRunCap packets dropped in a row
C2_HalfRateAfterBurst ==
    /\ hist[IPA].sent <= burst => hist[IPA].accepted = hist[IPA].sent
    /\ hist[IPA].dropRun < DropRunCap

----------------------------------------------------------------------------
(* SpecFull: the map is full, or one entry short of it, when the observed   *)
(* sources send their first packets                                         *)

\* packets each observed source sends under SpecFull
MaxFullPkts == 3

InitFull ==
    /\ RaceIdle
    /\ XdpIdle
    /\ DevIdle
    /\ TcIdle
    /\ PollIdle
    /\ SessIdle
    /\ HsIdle
    /\ RouteIdle
    /\ now = 0
    /\ rate_limit_map = [ip \in IPs |-> NoEntry]
    /\ n_other \in {RATE_LIMIT_MAX_ENTRIES - 1, RATE_LIMIT_MAX_ENTRIES}
    /\ hist = [ip \in IPs |-> NoHist]

SendFull ==
    \E ip \in IPs, k \in 0..MaxTicks :
        /\ hist[ip].sent < MaxFullPkts
        /\ now + k * HalfTok <= MaxTicks * HalfTok
        /\ Packet(ip, k * HalfTok)

\* a packet of an address that has no entry yet, other than the observed ones:
\* check_rate_limit inserts its entry if the map has room
SendOther ==
    /\ MapCount(rate_limit_map, n_other) < RATE_LIMIT_MAX_ENTRIES
    /\ n_other' = n_other + 1
    /\ UNCHANGED <<now, rate_limit_map, hist, raceVars, xdpVars, routeVars,
                   hsVars, devVars, tcVars, pollVars, sessVars>>

NextFull == SendFull \/ SendOther

SpecFull == InitFull /\ [][NextFull]_vars

\* C5: once a packet of a source was processed, the store holds an entry for
\* that source, also when the store was at capacity
C5_EntryAfterFirstPacket ==
    \A ip \in IPs : hist[ip].sent > 0 => rate_limit_map[ip] # NoEntry

----------------------------------------------------------------------------
(* SpecRace: two workers run check_rate_limit for IPA at the same clock     *)
(* value, interleaved at every read and write of the shared entry.  The     *)
(* entry is plain memory reached through the pointer bpf_map_lookup_elem    *)
(* returned: nothing orders the accesses of the two workers, and a build    *)
(* either reloads rl->tokens at each use or reuses the value it holds in a  *)
(* register.                                                                *)

Entry(tokens, last_update) == [tokens |-> tokens, last_update |-> last_update]

InitRace ==
    /\ now \in {0, TokNs}
    /\ \E e \in {NoEntry} \cup {Entry(k, 0) : k \in {0, 1, 2, burst}} :
            /\ rate_limit_map = [ip \in IPs |-> IF ip = IPA THEN e ELSE NoEntry]
            /\ race0 = e
    /\ n_other = 0
    /\ hist = [ip \in IPs |-> NoHist]
    /\ wk = [w \in Workers |-> [WorkerIdle EXCEPT !.pc = "start"]]
    /\ XdpIdle
    /\ DevIdle
    /\ TcIdle
    /\ PollIdle
    /\ SessIdle
    /\ RouteIdle
    /\ HsIdle

Mem == rate_limit_map[IPA]

SetTokens(v) == rate_limit_map' = [rate_limit_map EXCEPT ![IPA].tokens = v]

Step(w, pc, upd) == wk' = [wk EXCEPT ![w] = [upd EXCEPT !.pc = pc]]

RaceFrame == UNCHANGED <<now, n_other, hist, race0, xdpVars, routeVars,
                         hsVars, devVars, tcVars, pollVars, sessVars>>

\* now = bpf_ktime_get_ns(); rl = bpf_map_lookup_elem(&rate_limit_map, &src_ip);
RL_Lookup(w) ==
    /\ wk[w].pc = "start"
    /\ Step(w, IF MapLookup(rate_limit_map, IPA) = NoEntry THEN "create" ELSE "calc",
            [wk[w] EXCEPT !.t = now])
    /\ UNCHANGED rate_limit_map
    /\ RaceFrame

\* bpf_map_update_elem(&rate_limit_map, &src_ip, &new_rl, BPF_ANY); return true;
RL_Create(w) ==
    /\ wk[w].pc = "create"
    /\ rate_limit_map' = MapUpdate(rate_limit_map, n_other, IPA, Entry(burst, wk[w].t))
    /\ Step(w, "done", [wk[w] EXCEPT !.ret = "true"])
    /\ RaceFrame

\* tokens_to_add = (now - rl->last_update) * rate / 1000000000;
RL_Calc(w) ==
    /\ wk[w].pc = "calc"
    /\ Step(w, "add_load", [wk[w] EXCEPT !.add = TokensToAdd(wk[w].t, Mem.last_update)])
    /\ UNCHANGED rate_limit_map
    /\ RaceFrame

\* rl->tokens = rl->tokens + tokens_to_add;  (the load)
RL_AddLoad(w) ==
    /\ wk[w].pc = "add_load"
    /\ Step(w, "add_store", [wk[w] EXCEPT !.reg = Mem.tokens])
    /\ UNCHANGED rate_limit_map
    /\ RaceFrame

\* rl->tokens = rl->tokens + tokens_to_add;  (the store)
RL_AddStore(w) ==
    /\ wk[w].pc = "add_store"
    /\ SetTokens(wk[w].reg + wk[w].add)
    /\ Step(w, "cmp_burst", [wk[w] EXCEPT !.reg = wk[w].reg + wk[w].add])
    /\ RaceFrame

\* if (rl->tokens > burst)
RL_CmpBurst(w) ==
    /\ wk[w].pc = "cmp_burst"
    /\ \E v \in {wk[w].reg, Mem.tokens} :
            Step(w, IF U64Gt(v, burst) THEN "clamp_store" ELSE "lu_store",
                 [wk[w] EXCEPT !.reg = v])
    /\ UNCHANGED rate_limit_map
    /\ RaceFrame

\* rl->tokens = burst;
RL_ClampStore(w) ==
    /\ wk[w].pc = "clamp_store"
    /\ SetTokens(burst)
    /\ Step(w, "lu_store", [wk[w] EXCEPT !.reg = burst])
    /\ RaceFrame

\* rl->last_update = now;
RL_StoreLastUpdate(w) ==
    /\ wk[w].pc = "lu_store"
    /\ rate_limit_map' = [rate_limit_map EXCEPT ![IPA].last_update = wk[w].t]
    /\ Step(w, "cmp_zero", wk[w])
    /\ RaceFrame

\* if (rl->tokens > 0) ... return false;
RL_CmpZero(w) ==
    /\ wk[w].pc = "cmp_zero"
    /\ \E v \in {wk[w].reg, Mem.tokens} :
            IF U64Gt(v, 0)
            THEN Step(w, "dec_load", [wk[w] EXCEPT !.reg = v])
            ELSE Step(w, "done", [wk[w] EXCEPT !.reg = v, !.ret = "false"])
    /\ UNCHANGED rate_limit_map
    /\ RaceFrame

\* rl->tokens--;  (the load)
RL_DecLoad(w) ==
    /\ wk[w].pc = "dec_load"
    /\ \E v \in {wk[w].reg, Mem.tokens} :
            Step(w, "dec_store", [wk[w] EXCEPT !.reg = v])
    /\ UNCHANGED rate_limit_map
    /\ RaceFrame

\* rl->tokens--;  (the store)  return true;
RL_DecStore(w) ==
    /\ wk[w].pc = "dec_store"
    /\ SetTokens(wk[w].reg - 1)
    /\ Step(w, "done", [wk[w] EXCEPT !.reg = wk[w].reg - 1, !.ret = "true"])
    /\ RaceFrame

NextRace ==
    \E w \in Workers :
        \/ RL_Lookup(w)
        \/ RL_Create(w)
        \/ RL_Calc(w)
        \/ RL_AddLoad(w)
        \/ RL_AddStore(w)
        \/ RL_CmpBurst(w)
        \/ RL_ClampStore(w)
        \/ RL_StoreLastUpdate(w)
        \/ RL_CmpZero(w)
        \/ RL_DecLoad(w)
        \/ RL_DecStore(w)

SpecRace == InitRace /\ [][NextRace]_vars

RaceDone == \A w \in Workers : wk[w].pc = "done"

RaceAdmitted == Cardinality({w \in Workers : wk[w].ret = "true"})

\* the tokens the entry held for the two packets: its tokens when the workers
\* started plus the refill for the time since its last update, capped at burst
RaceAvailable == Refill(race0.tokens, TokensToAdd(now, race0.last_update))

\* C4: after two concurrent calls for one source the entry holds between 0
\* and burst tokens, and the two calls admitted no more packets than the
\* entry had tokens for
C4_ConcurrentCallsSafe ==
    (RaceDone /\ race0 # NoEntry) =>
        /\ Mem.tokens >= 0
        /\ ~U64Gt(Mem.tokens, burst)
        /\ RaceAdmitted <= RaceAvailable

----------------------------------------------------------------------------
(* xdp_vpn_filter and is_ddos_pattern.  A packet is the view of it the      *)
(* filter reads: len = data_end - data, the fields of the Ethernet, IP,     *)
(* UDP or TCP and WireGuard headers.  Offsets are relative to data.         *)

\* the packets of the model: a frame too short for an IP header, one that
\* holds the IP header but no UDP or TCP header, and a full one, with a
\* declared total length shorter than, equal to and longer than the captured
\* IP bytes
PktLens == {20, 40, 200}

TotLens == {40, 186, 1500}

Ttls == {4, 64}

BasePkt ==
    [len |-> 200, h_proto |-> "ETH_P_IP", ihl |-> 5, protocol |-> "UDP",
     frag |-> FALSE, tot_len |-> 186, ttl |-> 64, saddr |-> IPA, daddr |-> "gw",
     source |-> 4000, dest |-> WIREGUARD_PORT,
     type |-> WIREGUARD_MESSAGE_DATA, syn |-> FALSE, ack |-> FALSE]

IpPkts ==
    {[BasePkt EXCEPT !.len = l, !.tot_len = tl, !.frag = f, !.ttl = ttl] :
        l \in PktLens, tl \in TotLens, f \in BOOLEAN, ttl \in Ttls}

Packets ==
    {[BasePkt EXCEPT !.len = l, !.h_proto = "ETH_P_ARP"] : l \in PktLens}
    \cup {[q EXCEPT !.dest = d, !.type = ty] :
            q \in IpPkts, d \in {WIREGUARD_PORT, 53},
            ty \in {WIREGUARD_MESSAGE_HANDSHAKE_INITIATION, WIREGUARD_MESSAGE_DATA}}
    \cup {[q EXCEPT !.protocol = "TCP", !.dest = 443, !.syn = sy, !.ack = ak] :
            q \in IpPkts, sy \in BOOLEAN, ak \in BOOLEAN}
    \cup {[q EXCEPT !.protocol = "ICMP"] : q \in IpPkts}

\* ip->frag_off & bpf_htons(IP_MF | IP_OFFSET)
DdosFragment(p) == p.frag

\* (void *)ip + bpf_ntohs(ip->tot_len) < data_end - 64
DdosLength(p) == ETH_HLEN + p.tot_len < p.len - LEN_SLACK

\* ip->ttl < 5
DdosTtl(p) == p.ttl < MIN_TTL

\* TCP with the header inside the packet, SYN set and ACK clear
DdosSyn(p) ==
    /\ p.protocol = "TCP"
    /\ ETH_HLEN + p.ihl * 4 + TCP_HLEN <= p.len
    /\ p.syn /\ ~p.ack

IsDdosPatternNoSyn(p) == DdosFragment(p) \/ DdosLength(p) \/ DdosTtl(p)

is_ddos_pattern(p) == DdosFragment(p) \/ DdosLength(p) \/ DdosTtl(p) \/ DdosSyn(p)

FlowKey(p) == <<p.saddr, p.daddr, p.source, p.dest, "UDP">>

DroppedNotCounted(st) == st

\* __sync_fetch_and_add(&stats->dropped_packets, 1)
Dropped(st) == [st EXCEPT !.dropped_packets = @ + 1]

\* the end of xdp_vpn_filter: if (is_ddos_pattern(ip, data_end)) ... return XDP_PASS;
XdpTail(p, st, map, flows) ==
    IF is_ddos_pattern(p)
    THEN [verdict |-> "XDP_DROP", stats |-> Dropped(st), map |-> map, flows |-> flows,
          rl |-> "none", flow |-> "none", ddos |-> TRUE]
    ELSE [verdict |-> "XDP_PASS", stats |-> st, map |-> map, flows |-> flows,
          rl |-> "none", flow |-> "none", ddos |-> TRUE]

\* the WireGuard branch, after the bounds check of the WireGuard header
XdpWireguard(p, t, st, map, others, flows) ==
    LET r == check_rate_limit(map, others, p.saddr, t)
    IN  IF ~r.ret
        THEN [verdict |-> "XDP_DROP", stats |-> Dropped(st), map |-> r.map,
              flows |-> flows, rl |-> "drop", flow |-> "none", ddos |-> FALSE]
        ELSE IF p.type = WIREGUARD_MESSAGE_DATA /\ FlowKey(p) \in DOMAIN flows
        THEN [verdict |-> "XDP_REDIRECT", stats |-> st, map |-> r.map,
              flows |-> [flows EXCEPT ![FlowKey(p)] =
                            [@ EXCEPT !.packets = @ + 1, !.bytes = @ + p.len,
                                      !.last_seen = t]],
              rl |-> "pass", flow |-> "hit", ddos |-> FALSE]
        ELSE [XdpTail(p, st, r.map, flows) EXCEPT
                !.rl = "pass",
                !.flow = IF p.type = WIREGUARD_MESSAGE_DATA THEN "miss" ELSE "none"]

\* the whole program on packet p at clock value t
xdp_vpn_filter(p, t, st, map, others, flows) ==
    LET same(v, s) == [verdict |-> v, stats |-> s, map |-> map, flows |-> flows,
                       rl |-> "none", flow |-> "none", ddos |-> FALSE]
        st1 == [st EXCEPT !.rx_packets = @ + 1, !.rx_bytes = @ + p.len]
    IN  IF ETH_HLEN > p.len                            THEN same("XDP_DROP", st)
        ELSE IF p.h_proto # "ETH_P_IP"                 THEN same("XDP_PASS", st1)
        ELSE IF ETH_HLEN + IP_HLEN > p.len             THEN same("XDP_DROP", st1)
        ELSE IF p.protocol # "UDP"                     THEN XdpTail(p, st1, map, flows)
        ELSE IF ETH_HLEN + p.ihl * 4 + UDP_HLEN > p.len THEN same("XDP_DROP", st1)
        ELSE IF p.dest # WIREGUARD_PORT                THEN XdpTail(p, st1, map, flows)
        ELSE IF ETH_HLEN + p.ihl * 4 + UDP_HLEN + WG_HLEN > p.len
                                                       THEN same("XDP_DROP", st1)
        ELSE XdpWireguard(p, t, st1, map, others, flows)

\* packets the filter handles under SpecXdp
MaxXdpPkts == 2

\* p is a data message that passed rate limiting and was not dropped
AcceptedData(p, r) ==
    /\ r.rl = "pass"
    /\ p.type = WIREGUARD_MESSAGE_DATA
    /\ r.verdict # "XDP_DROP"

\* the filter runs on packet p, dt ns after the previous packet
XdpPacket(p, dt) ==
    LET t == now + dt
        r == xdp_vpn_filter(p, t, stats, rate_limit_map, n_other, flow_table)
    IN  /\ now' = t
        /\ stats' = r.stats
        /\ rate_limit_map' = r.map
        /\ flow_table' = r.flows
        /\ xdp' = [pkt |-> p, verdict |-> r.verdict, rl |-> r.rl, flow |-> r.flow,
                   ddos |-> r.ddos, t |-> t, stats0 |-> stats,
                   flows0 |-> flow_table, entry0 |-> rate_limit_map[p.saddr],
                   accepted0 |-> xdp.accepted,
                   accepted |-> IF AcceptedData(p, r) THEN xdp.accepted \cup {FlowKey(p)}
                                ELSE xdp.accepted]
        /\ UNCHANGED <<n_other, hist, raceVars, routeVars, hsVars, devVars,
                       tcVars, pollVars, sessVars>>

\* the entry of IPA is absent, full or empty when the first packet arrives
InitXdp ==
    /\ RaceIdle
    /\ XdpIdle
    /\ DevIdle
    /\ TcIdle
    /\ PollIdle
    /\ SessIdle
    /\ HsIdle
    /\ RouteIdle
    /\ now = 0
    /\ \E e \in {NoEntry, Entry(burst, 0), Entry(0, 0)} :
            rate_limit_map = [ip \in IPs |-> IF ip = IPA THEN e ELSE NoEntry]
    /\ n_other = 0
    /\ hist = [ip \in IPs |-> NoHist]

Receive ==
    \E p \in Packets, k \in {0, 1} :
        /\ stats.rx_packets < MaxXdpPkts
        /\ now + k * HalfTok <= MaxTicks * HalfTok
        /\ XdpPacket(p, k * HalfTok)

NextXdp == Receive

SpecXdp == InitXdp /\ [][NextXdp]_vars

Abs(x) == IF x < 0 THEN -x ELSE x

\* C6: an IPv4 packet whose declared total length differs from the captured
\* IP bytes by more than the 64-byte slack, in either direction, is dropped
C6_LengthMismatchDropped ==
    (/\ xdp.pkt # NoPacket
     /\ xdp.pkt.h_proto = "ETH_P_IP"
     /\ xdp.pkt.len >= ETH_HLEN + IP_HLEN
     /\ Abs(xdp.pkt.tot_len - (xdp.pkt.len - ETH_HLEN)) > LEN_SLACK)
        => xdp.verdict = "XDP_DROP"

\* the bounds checks up to the header the packet's protocol and port call for
WellFormed(p) ==
    /\ p.h_proto = "ETH_P_IP"
    /\ p.len >= ETH_HLEN + IP_HLEN
    /\ p.protocol = "UDP" => p.len >= ETH_HLEN + p.ihl * 4 + UDP_HLEN
    /\ (p.protocol = "UDP" /\ p.dest = WIREGUARD_PORT) =>
            p.len >= ETH_HLEN + p.ihl * 4 + UDP_HLEN + WG_HLEN
    /\ p.protocol = "TCP" => p.len >= ETH_HLEN + p.ihl * 4 + TCP_HLEN

TunnelPacket(p) ==
    /\ WellFormed(p)
    /\ p.protocol = "UDP"
    /\ p.dest = WIREGUARD_PORT

----------------------------------------------------------------------------
(* SpecXdpOne: the filter as a function of one packet and of the maps it    *)
(* meets.  flow_table is shared with user space, the only writer of new     *)
(* entries: the packet meets it empty or holding the entry of its flow.     *)

FlowEntry == [packets |-> 1, bytes |-> 200, last_seen |-> 0, state |-> 1]

InitXdpOne ==
    /\ RaceIdle
    /\ DevIdle
    /\ TcIdle
    /\ PollIdle
    /\ SessIdle
    /\ HsIdle
    /\ RouteIdle
    /\ now = 0
    /\ \E e \in {NoEntry, Entry(burst, 0), Entry(1, 0), Entry(0, 0)} :
            rate_limit_map = [ip \in IPs |-> IF ip = IPA THEN e ELSE NoEntry]
    /\ n_other = 0
    /\ hist = [ip \in IPs |-> NoHist]
    /\ stats = [rx_packets |-> 0, rx_bytes |-> 0, dropped_packets |-> 0]
    /\ flow_table \in {<<>>, [f \in {FlowKey(BasePkt)} |-> FlowEntry]}
    /\ xdp = NoXdp

ReceiveOne ==
    \E p \in Packets, k \in 0..MaxTicks :
        /\ xdp.pkt = NoPacket
        /\ XdpPacket(p, k * HalfTok)

NextXdpOne == ReceiveOne

SpecXdpOne == InitXdpOne /\ [][NextXdpOne]_vars

\* the bucket of the packet's source was empty and the time since its last
\* update bought no token
EmptyBucket ==
    /\ xdp.entry0 # NoEntry
    /\ xdp.entry0.tokens = 0
    /\ (xdp.t - xdp.entry0.last_update) * rate < NSEC_PER_SEC

\* C17: a well-formed packet to the tunnel port, of any message type, whose
\* source has an empty bucket is dropped: dropped_packets and the receive
\* counters go up by one packet, the flow table is neither read nor written
\* and is_ddos_pattern is not evaluated
C17_RateLimitedDrop ==
    (xdp.pkt # NoPacket /\ TunnelPacket(xdp.pkt) /\ EmptyBucket) =>
        /\ xdp.verdict = "XDP_DROP"
        /\ stats.dropped_packets = xdp.stats0.dropped_packets + 1
        /\ stats.rx_packets = xdp.stats0.rx_packets + 1
        /\ stats.rx_bytes = xdp.stats0.rx_bytes + xdp.pkt.len
        /\ flow_table = xdp.flows0
        /\ xdp.flow = "none"
        /\ ~xdp.ddos

\* a handshake initiation and a data message of a known flow met an empty bucket
C17_Witness ==
    /\ xdp.pkt # NoPacket
    /\ TunnelPacket(xdp.pkt)
    /\ EmptyBucket
    /\ xdp.rl = "drop"
    /\ \/ xdp.pkt.type = WIREGUARD_MESSAGE_HANDSHAKE_INITIATION
       \/ FlowKey(xdp.pkt) \in DOMAIN xdp.flows0

\* fragmented, TTL below 5, or TCP with SYN set and ACK clear
DdosMarks(p) ==
    \/ p.frag
    \/ p.ttl < 5
    \/ (p.protocol = "TCP" /\ p.syn /\ ~p.ack)

\* the declared length is not more than 64 bytes short of the captured bytes
LengthCheckPasses(p) == ~(ETH_HLEN + p.tot_len < p.len - 64)

\* C18: a well-formed IPv4 packet that is neither redirected nor dropped by
\* the rate limiter is dropped and counted when it is a fragment, has a TTL
\* below 5 or is a TCP SYN without ACK; otherwise, if the length check
\* passes too, it is passed on
C18_DdosChecksOnSlowPath ==
    (/\ xdp.pkt # NoPacket
     /\ WellFormed(xdp.pkt)
     /\ xdp.verdict # "XDP_REDIRECT"
     /\ xdp.rl # "drop") =>
        /\ DdosMarks(xdp.pkt) =>
                /\ xdp.verdict = "XDP_DROP"
                /\ stats.dropped_packets = xdp.stats0.dropped_packets + 1
        /\ (~DdosMarks(xdp.pkt) /\ LengthCheckPasses(xdp.pkt)) =>
                /\ xdp.verdict = "XDP_PASS"
                /\ stats.dropped_packets = xdp.stats0.dropped_packets

\* a tunnel packet passed the rate limiter and was then dropped for its TTL
C18_Witness ==
    /\ xdp.pkt # NoPacket
    /\ TunnelPacket(xdp.pkt)
    /\ xdp.rl = "pass"
    /\ xdp.pkt.ttl < 5
    /\ ~xdp.pkt.frag
    /\ xdp.verdict = "XDP_DROP"

\* C16 (under SpecXdp): a data message that passed rate limiting and shows
\* no DDoS pattern, of a flow of which a data
\* packet was accepted before, finds the flow entry, updates its counters
\* and last-seen and is redirected to the current CPU
C16_SecondPacketFastPath ==
    (/\ xdp.pkt # NoPacket
     /\ TunnelPacket(xdp.pkt)
     /\ xdp.pkt.type = WIREGUARD_MESSAGE_DATA
     /\ xdp.rl = "pass"
     /\ ~DdosMarks(xdp.pkt)
     /\ LengthCheckPasses(xdp.pkt)
     /\ FlowKey(xdp.pkt) \in xdp.accepted0)
        => /\ xdp.verdict = "XDP_REDIRECT"
           /\ FlowKey(xdp.pkt) \in DOMAIN flow_table
           /\ flow_table[FlowKey(xdp.pkt)].last_seen = xdp.t

----------------------------------------------------------------------------
(* undertheradar_routing_lookup.  A peer is its id, whether                 *)
(* undertheradar_peer_matches_skb holds of it for the skb at hand, and the  *)
(* two fields the load is computed from.  The result is the position of the *)
(* selected peer in the list, 0 for NULL.                                   *)

U64_MAX == -1

RTT_WEIGHT == 1000

U64Lt(a, b) == U64Gt(b, a)

\* peers on the list
MaxPeers == 3

PeerIds == 1..MaxPeers

\* tx_bytes: nothing sent, some traffic, and the largest value of the counter
TxBytesVals == {0, 1000, U64_MAX}

RttVals == {0, 1}

\* load = atomic64_read(&peer->tx_bytes) + (peer->last_handshake_rtt * 1000)
PeerLoad(p) == p.tx_bytes + p.last_handshake_rtt * RTT_WEIGHT

IsLowerOrEqual(load, lowest_load) == ~U64Gt(load, lowest_load)

\* if (load < lowest_load)
IsLower(load, lowest_load) == U64Lt(load, lowest_load)

\* the loop body for the peers from position i on
RECURSIVE RoutingScan(_, _, _, _)
RoutingScan(list, i, lowest_load, best_peer) ==
    IF i > Len(list) THEN best_peer
    ELSE IF ~list[i].matches THEN RoutingScan(list, i + 1, lowest_load, best_peer)
    ELSE IF IsLower(PeerLoad(list[i]), lowest_load)
         THEN RoutingScan(list, i + 1, PeerLoad(list[i]), i)
         ELSE RoutingScan(list, i + 1, lowest_load, best_peer)

undertheradar_routing_lookup(list) == RoutingScan(list, 1, U64_MAX, 0)

\* the peer lists: up to MaxPeers peers with distinct ids, in any order
PeerFields ==
    [matches : BOOLEAN, tx_bytes : TxBytesVals, last_handshake_rtt : RttVals]

IdOrders(n) == {f \in [1..n -> PeerIds] : \A i, j \in 1..n : i # j => f[i] # f[j]}

PeerListOf(ids, flds) ==
    [i \in DOMAIN ids |-> [id |-> ids[i], matches |-> flds[i].matches,
                           tx_bytes |-> flds[i].tx_bytes,
                           last_handshake_rtt |-> flds[i].last_handshake_rtt]]

InitRoute ==
    /\ RaceIdle
    /\ XdpIdle
    /\ DevIdle
    /\ TcIdle
    /\ PollIdle
    /\ SessIdle
    /\ HsIdle
    /\ now = 0
    /\ rate_limit_map = [ip \in IPs |-> NoEntry]
    /\ n_other = 0
    /\ hist = [ip \in IPs |-> NoHist]
    /\ \E n \in 0..MaxPeers : \E ids \in IdOrders(n), flds \in [1..n -> PeerFields] :
            peer_list = PeerListOf(ids, flds)
    /\ route = [done |-> FALSE, best |-> 0]

\* undertheradar_xmit: peer = undertheradar_routing_lookup(wg, skb);
RoutingLookup ==
    /\ ~route.done
    /\ route' = [done |-> TRUE, best |-> undertheradar_routing_lookup(peer_list)]
    /\ UNCHANGED <<peer_list, rlVars, raceVars, xdpVars, hsVars, devVars,
                   tcVars, pollVars, sessVars>>

NextRoute == RoutingLookup

SpecRoute == InitRoute /\ [][NextRoute]_vars

Matching == {i \in 1..Len(peer_list) : peer_list[i].matches}

\* the matching peers whose load no matching peer undercuts
LeastLoaded ==
    {i \in Matching :
        \A j \in Matching : ~U64Gt(PeerLoad(peer_list[i]), PeerLoad(peer_list[j]))}

\* C7: the lookup returns a matching peer of minimal load, and returns no
\* peer exactly when no peer matches
C7_ReturnsLeastLoaded ==
    route.done =>
        /\ (route.best = 0) <=> (Matching = {})
        /\ route.best # 0 => route.best \in LeastLoaded

\* C8: among several matching peers of the same minimal load the one with
\* the lowest id is selected, whatever the order of the list
C8_TieBrokenByLowestId ==
    (route.done /\ route.best # 0 /\ Cardinality(LeastLoaded) > 1) =>
        /\ route.best \in LeastLoaded
        /\ \A j \in LeastLoaded : peer_list[route.best].id <= peer_list[j].id

\* C8 as amended: of several matching peers of the same minimal load the one
\* that comes first in the peer list is selected, whatever its id
C8_TieBrokenByListOrder ==
    (route.done /\ route.best # 0 /\ Cardinality(LeastLoaded) > 1) =>
        /\ route.best \in LeastLoaded
        /\ \A j \in LeastLoaded : route.best <= j

\* two least-loaded peers tie and the one selected has the higher id
C8_Witness ==
    /\ route.done
    /\ route.best # 0
    /\ \E j \in LeastLoaded :
        /\ j # route.best
        /\ peer_list[j].id < peer_list[route.best].id

----------------------------------------------------------------------------
(* undertheradar_peer_check_handshake, the callback of                      *)
(* timer_retransmit_handshake.  The source names MAX_HANDSHAKE_RETRY and    *)
(* the base interval without defining them: the model fixes the first and   *)
(* starts the peer with a base of 1 .. MaxBase jiffies.                     *)

MAX_HANDSHAKE_RETRY == 20

MaxBase == 3

\* expiries observed, and how many jiffies late the timer may fire
MaxExpiries == 6

MaxLate == 1

HANDSHAKE_FAILURE_THRESHOLD == 3

BackoffUncapped(interval) == interval * 2

\* min(peer->handshake_retry_interval * 2, MAX_HANDSHAKE_RETRY)
Backoff(interval) == Min(interval * 2, MAX_HANDSHAKE_RETRY)

\* the state when the first initiation was sent and the timer armed with the
\* base interval; handshake_failures holds whatever the rest of the driver left
InitHS ==
    /\ RaceIdle
    /\ XdpIdle
    /\ DevIdle
    /\ TcIdle
    /\ PollIdle
    /\ SessIdle
    /\ RouteIdle
    /\ now = 0
    /\ rate_limit_map = [ip \in IPs |-> NoEntry]
    /\ n_other = 0
    /\ hist = [ip \in IPs |-> NoHist]
    /\ jiffies = 0
    /\ \E b \in 1..MaxBase, f \in {0, HANDSHAKE_FAILURE_THRESHOLD + 1} :
        /\ peer = [handshake_failures |-> f, handshake_retry_interval |-> b,
                   endpoint |-> "primary", timer_expires |-> b,
                   timer_pending |-> TRUE]
        /\ hs = [base |-> b, failures0 |-> f, expiries |-> 0, fired_at |-> 0,
                 sent |-> 0, switched |-> FALSE]
    /\ rm = NotRemoved

Tick ==
    /\ peer.timer_pending
    /\ jiffies < peer.timer_expires + MaxLate
    /\ jiffies' = jiffies + 1
    /\ UNCHANGED <<peer, hs, rm, rlVars, raceVars, xdpVars, routeVars,
                   devVars, tcVars, pollVars, sessVars>>

CheckHandshakeGiveUp(p, j) ==
    LET interval == Backoff(p.handshake_retry_interval)
    IN  [p EXCEPT !.handshake_retry_interval = interval,
                  !.timer_expires = j + interval,
                  !.timer_pending = interval < MAX_HANDSHAKE_RETRY]

\* the body of the callback on peer p at tick j: the endpoint switch, the
\* doubling of the interval, and mod_timer(..., jiffies + interval)
CheckHandshake(p, j) ==
    LET switch   == p.handshake_failures > HANDSHAKE_FAILURE_THRESHOLD
        interval == Backoff(p.handshake_retry_interval)
    IN  [p EXCEPT !.endpoint = IF switch THEN "alternative" ELSE @,
                  !.handshake_retry_interval = interval,
                  !.timer_expires = j + interval,
                  !.timer_pending = TRUE]

\* what the observer records of one run of the callback
ObserveExpiry(h, p, j) ==
    [h EXCEPT !.expiries = @ + 1,
              !.fired_at = j,
              !.sent = @ + 1,
              !.switched = p.handshake_failures > HANDSHAKE_FAILURE_THRESHOLD]

\* the timer expires and the callback runs
undertheradar_peer_check_handshake ==
    /\ peer.timer_pending
    /\ jiffies >= peer.timer_expires
    /\ hs.expiries < MaxExpiries
    /\ peer' = CheckHandshake(peer, jiffies)
    /\ hs' = ObserveExpiry(hs, peer, jiffies)
    /\ UNCHANGED <<jiffies, rm, rlVars, raceVars, xdpVars, routeVars, devVars,
                   tcVars, pollVars, sessVars>>

NextHS == Tick \/ undertheradar_peer_check_handshake

SpecHS == InitHS /\ [][NextHS]_vars

\* C9: after k consecutive expiries the retry interval is
\* min(base * 2^k, MAX_HANDSHAKE_RETRY), and the timer was re-armed at the
\* expiry with exactly that interval
C9_BackoffInterval ==
    /\ peer.handshake_retry_interval = Min(hs.base * 2^hs.expiries, MAX_HANDSHAKE_RETRY)
    /\ hs.expiries > 0 =>
        /\ peer.timer_pending
        /\ peer.timer_expires = hs.fired_at + peer.handshake_retry_interval

\* the doubling reached the cap
C9_Witness ==
    /\ hs.expiries > 2
    /\ hs.base * 2^hs.expiries > MAX_HANDSHAKE_RETRY
    /\ peer.handshake_retry_interval = MAX_HANDSHAKE_RETRY

\* C10: every expiry increments handshake_failures, and the initiation sent
\* at an expiry that more than 3 consecutive expiries precede goes out after
\* the switch to an alternative endpoint
C10_FailuresCountedAndFailover ==
    /\ peer.handshake_failures = hs.failures0 + hs.expiries
    /\ (hs.failures0 = 0 /\ hs.expiries > HANDSHAKE_FAILURE_THRESHOLD + 1) => hs.switched

----------------------------------------------------------------------------
(* SpecRemove: the peer is removed while its retransmit timer is armed.     *)
(* The timer core takes an expired timer off the wheel and then calls the   *)
(* callback; the removal, which is not part of the two source files, is     *)
(* taken from the specification: it cancels the pending timer.  A callback  *)
(* that was already dispatched is not stopped by the cancellation.          *)

\* the timer core: the expired timer is detached and its callback dispatched
TimerExpire ==
    /\ peer.timer_pending
    /\ ~rm.running
    /\ jiffies >= peer.timer_expires
    /\ hs.expiries < MaxExpiries
    /\ peer' = [peer EXCEPT !.timer_pending = FALSE]
    /\ rm' = [rm EXCEPT !.running = TRUE]
    /\ UNCHANGED <<jiffies, hs, rlVars, raceVars, xdpVars, routeVars, devVars,
                   tcVars, pollVars, sessVars>>

\* the dispatched callback runs: lines 273-288, whatever became of the peer
CallbackRun ==
    /\ rm.running
    /\ peer' = CheckHandshake(peer, jiffies)
    /\ hs' = ObserveExpiry(hs, peer, jiffies)
    /\ rm' = [rm EXCEPT !.running = FALSE,
                        !.sent = IF rm.removed THEN @ + 1 ELSE @,
                        !.armed = rm.removed]
    /\ UNCHANGED <<jiffies, rlVars, raceVars, xdpVars, routeVars, devVars,
                   tcVars, pollVars, sessVars>>

\* the control path removes the peer and cancels its pending timer
RemovePeer ==
    /\ ~rm.removed
    /\ rm' = [rm EXCEPT !.removed = TRUE]
    /\ peer' = [peer EXCEPT !.timer_pending = FALSE]
    /\ UNCHANGED <<jiffies, hs, rlVars, raceVars, xdpVars, routeVars, devVars,
                   tcVars, pollVars, sessVars>>

TickRemove ==
    /\ jiffies < peer.timer_expires + MaxLate
    /\ jiffies' = jiffies + 1
    /\ UNCHANGED <<peer, hs, rm, rlVars, raceVars, xdpVars, routeVars,
                   devVars, tcVars, pollVars, sessVars>>

NextRemove == TickRemove \/ TimerExpire \/ CallbackRun \/ RemovePeer

SpecRemove == InitHS /\ [][NextRemove]_vars

\* C11: a callback that runs after (or while) its peer is removed does
\* nothing: no handshake initiation is sent for the removed peer and the
\* timer of the removed peer is not armed again
C11_CallbackNoOpAfterRemoval ==
    rm.removed => (rm.sent = 0 /\ ~rm.armed /\ ~peer.timer_pending)

----------------------------------------------------------------------------
(* The control path of the device: undertheradar_enable_kill_switch and     *)
(* undertheradar_add_hop, and the transmit path undertheradar_xmit.  The    *)
(* firewall, the allocator and the cipher are outside the two source files: *)
(* each call into them succeeds or fails, and the model tries both.         *)

\* calls of undertheradar_enable_kill_switch
MaxKsCalls == 3

\* "-A OUTPUT -o %s -j ACCEPT" and "-A OUTPUT -j DROP"
RULE_ALLOW_TUNNEL == "-A OUTPUT -o wg0 -j ACCEPT"

RULE_DENY_ALL == "-A OUTPUT -j DROP"

Outcomes == {"ok", "fail"}

NeverEnabled(k) == FALSE

\* if (wg->kill_switch_enabled) return 0;
AlreadyEnabled(k) == k.kill_switch_enabled

\* one call: create1 and create2 are the outcomes of iptables_create_rule,
\* add1 and add2 those of iptables_add_rule; iptables_add_rule of a rule that
\* could not be created installs nothing and returns an error
enable_kill_switch(k, create1, add1, create2, add2) ==
    IF AlreadyEnabled(k) THEN [k EXCEPT !.ret = "0"]
    ELSE IF create1 = "fail" THEN [k EXCEPT !.ret = "-ENOMEM"]
    ELSE IF add1 = "fail" THEN [k EXCEPT !.ret = "-EFAIL"]
    ELSE LET k1 == [k EXCEPT !.rules = Append(@, RULE_ALLOW_TUNNEL)]
             ok2 == create2 = "ok" /\ add2 = "ok"
         IN  [k1 EXCEPT !.rules = IF ok2 THEN Append(@, RULE_DENY_ALL) ELSE @,
                        !.kill_switch_enabled = TRUE,
                        !.ret = IF ok2 THEN "0" ELSE "-EFAIL"]

undertheradar_enable_kill_switch ==
    /\ ks.calls < MaxKsCalls
    /\ \E create1 \in Outcomes, add1 \in Outcomes,
          create2 \in Outcomes, add2 \in Outcomes :
            ks' = [enable_kill_switch(ks, create1, add1, create2, add2)
                       EXCEPT !.calls = @ + 1,
                              !.again = IF ks.kill_switch_enabled THEN @ + 1 ELSE @]
    /\ UNCHANGED <<hop, tx, rlVars, raceVars, xdpVars, routeVars, hsVars,
                   tcVars, pollVars, sessVars>>

KsFailed == ks.ret \notin {"none", "0"}

\* C12: a failing call leaves no rule installed and the switch disabled;
\* whenever the switch is enabled, the allow-tunnel rule and the deny-all
\* rule are installed, in that order
C12_KillSwitchAllOrNothing ==
    /\ KsFailed => (ks.rules = <<>> /\ ~ks.kill_switch_enabled)
    /\ ks.kill_switch_enabled => ks.rules = <<RULE_ALLOW_TUNNEL, RULE_DENY_ALL>>

\* C13: a call made while the switch is enabled installs nothing, changes
\* nothing and returns 0
C13_EnableIdempotent ==
    [][(ks.kill_switch_enabled /\ ks'.calls # ks.calls) =>
            (/\ ks'.rules = ks.rules
             /\ ks'.kill_switch_enabled
             /\ ks'.ret = "0")]_vars

\* the switch was enabled with both rules and enable was called again
C13_Witness ==
    /\ ks.kill_switch_enabled
    /\ ks.rules = <<RULE_ALLOW_TUNNEL, RULE_DENY_ALL>>
    /\ ks.again > 0
    /\ ks.ret = "0"

----------------------------------------------------------------------------
(* undertheradar_add_hop, statement by statement.  A hop is the number of   *)
(* the call that added it.  The effective route is the chain that           *)
(* undertheradar_recalculate_hop_routing last nested the tunnels for.  The  *)
(* function takes no lock and publishes nothing atomically, so the packet   *)
(* path may read the chain and the route between any two statements.        *)

\* calls of undertheradar_add_hop
MaxHops == 3

\* hop = kzalloc(sizeof(*hop), GFP_KERNEL); if (!hop) return -ENOMEM;
AddHopAlloc ==
    /\ hop.pc = "idle"
    /\ hop.calls < MaxHops
    /\ \E alloc \in Outcomes :
            hop' = [hop EXCEPT !.calls = @ + 1,
                               !.chain0 = hop.chain,
                               !.route0 = hop.route,
                               !.pc = IF alloc = "ok" THEN "alloc" ELSE "idle",
                               !.ret = IF alloc = "ok" THEN "none" ELSE "-ENOMEM"]
    /\ UNCHANGED <<ks, tx, rlVars, raceVars, xdpVars, routeVars, hsVars,
                   tcVars, pollVars, sessVars>>

\* list_add_tail(&hop->list, &wg->hop_chain);
AddHopLink ==
    /\ hop.pc = "alloc"
    /\ hop' = [hop EXCEPT !.chain = Append(@, hop.calls), !.pc = "linked"]
    /\ UNCHANGED <<ks, tx, rlVars, raceVars, xdpVars, routeVars, hsVars,
                   tcVars, pollVars, sessVars>>

\* undertheradar_recalculate_hop_routing(wg); return 0;
AddHopRecalc ==
    /\ hop.pc = "linked"
    /\ hop' = [hop EXCEPT !.route = hop.chain, !.pc = "idle", !.ret = "0"]
    /\ UNCHANGED <<ks, tx, rlVars, raceVars, xdpVars, routeVars, hsVars,
                   tcVars, pollVars, sessVars>>

\* the packet path reads the chain and the route it sends along
PacketPathRead ==
    /\ hop.seen # [chain |-> hop.chain, route |-> hop.route]
    /\ hop' = [hop EXCEPT !.seen = [chain |-> hop.chain, route |-> hop.route]]
    /\ UNCHANGED <<ks, tx, rlVars, raceVars, xdpVars, routeVars, hsVars,
                   tcVars, pollVars, sessVars>>

HopReturned == hop.pc = "idle" /\ hop.ret # "none"

\* C14: the packet path never sees a chain whose route was not recomputed;
\* a successful call appended its hop at the tail and left the earlier hops
\* in order; a call that failed to allocate left chain and route as they were
C14_HopAddAtomic ==
    /\ hop.seen.route = hop.seen.chain
    /\ (HopReturned /\ hop.ret = "0") =>
            (hop.chain = Append(hop.chain0, hop.calls) /\ hop.route = hop.chain)
    /\ (HopReturned /\ hop.ret = "-ENOMEM") =>
            (hop.chain = hop.chain0 /\ hop.route = hop.route0)

----------------------------------------------------------------------------
(* SpecCtl: the control path calls undertheradar_enable_kill_switch and     *)
(* undertheradar_add_hop while the packet path runs                         *)

InitCtl == InitRL

NextCtl ==
    \/ undertheradar_enable_kill_switch
    \/ AddHopAlloc
    \/ AddHopLink
    \/ AddHopRecalc
    \/ PacketPathRead

SpecCtl == InitCtl /\ [][NextCtl]_vars

----------------------------------------------------------------------------
(* undertheradar_xmit.  The skb is a list of n segments, numbered 1 .. n;   *)
(* tx.queued is the peer's transmit queue in order, tx.freed the segments   *)
(* released with kfree_skb, tx.tx_errors the peer's counter.                *)

\* segments of one skb, and calls of undertheradar_xmit
MaxSegs == 3

MaxXmit == 2

OnEncryptFailNoCount(st, i) == [st EXCEPT !.freed = @ \cup {i}]

\* kfree_skb(skb); atomic64_inc(&peer->tx_errors);
OnEncryptFail(st, i) ==
    [st EXCEPT !.freed = @ \cup {i}, !.tx_errors = @ + 1]

\* undertheradar_packet_queue_tx(peer, skb);
OnEncryptOk(st, i) == [st EXCEPT !.queued = Append(@, i)]

\* the do ... while (skb) loop from segment i on; enc[i] is the outcome of
\* undertheradar_packet_encrypt on segment i
RECURSIVE XmitLoop(_, _, _)
XmitLoop(enc, i, st) ==
    IF i > Len(enc) THEN st
    ELSE XmitLoop(enc, i + 1,
                  IF enc[i] = "ok" THEN OnEncryptOk(st, i) ELSE OnEncryptFail(st, i))

\* the err: label: kfree_skb_list(skb); atomic64_inc(&dev->stats.tx_errors);
XmitErr(st, n, path, ret) ==
    [st EXCEPT !.path = path, !.freed = 1..n, !.dev_tx_errors = @ + 1, !.ret = ret]

\* one call on state st: gso_ok is the outcome of skb_gso_segment, found
\* that of undertheradar_routing_lookup, bypass whether split tunnelling
\* diverts the packet and bypass_ret what undertheradar_bypass_tunnel returns
xmit(st, n, gso_ok, found, bypass, bypass_ret, enc) ==
    LET st0 == [st EXCEPT !.pc = "done", !.calls = @ + 1, !.n = n, !.queued = <<>>,
                          !.freed = {}, !.tx_errors0 = st.tx_errors, !.send_now = 0]
    IN  IF ~gso_ok THEN XmitErr(st0, n, "gso_err", "-EINVAL")
        ELSE IF ~found THEN XmitErr(st0, n, "no_peer", "-ENOKEY")
        ELSE IF bypass THEN [st0 EXCEPT !.path = "bypass", !.ret = bypass_ret]
        ELSE [XmitLoop(enc, 1, st0) EXCEPT !.path = "tunnel", !.send_now = 1,
                                          !.ret = "NETDEV_TX_OK"]

undertheradar_xmit ==
    /\ tx.calls < MaxXmit
    /\ \E n \in 1..MaxSegs, gso_ok \in BOOLEAN, found \in BOOLEAN, bypass \in BOOLEAN,
          bypass_ret \in {"NETDEV_TX_OK", "NETDEV_TX_BUSY"} :
          \E enc \in [1..n -> Outcomes] :
            tx' = xmit(tx, n, gso_ok, found, bypass, bypass_ret, enc)
    /\ UNCHANGED <<ks, hop, rlVars, raceVars, xdpVars, routeVars, hsVars,
                   tcVars, pollVars, sessVars>>

NextXmit == undertheradar_xmit

SpecXmit == InitRL /\ [][NextXmit]_vars

\* every segment of the call was queued once or freed once, each failure was
\* counted, and the call returned NETDEV_TX_OK
EachSegmentOnce ==
    /\ \A i \in 1..tx.n :
        (i \in tx.freed) # (\E k \in 1..Len(tx.queued) : tx.queued[k] = i)
    /\ \A k, l \in 1..Len(tx.queued) : tx.queued[k] = tx.queued[l] => k = l
    /\ Len(tx.queued) + Cardinality(tx.freed) = tx.n
    /\ tx.tx_errors = tx.tx_errors0 + Cardinality(tx.freed)
    /\ tx.ret = "NETDEV_TX_OK"

\* C15: for a packet of n segments and a found peer, every segment is
\* encrypted and queued, or freed and counted in tx_errors, and the call
\* returns NETDEV_TX_OK
C15_EverySegmentHandled ==
    (tx.pc = "done" /\ tx.path \notin {"gso_err", "no_peer"}) => EachSegmentOnce

\* C15 as amended: the same, for a packet that split tunnelling does not
\* divert around the tunnel
C15_EverySegmentHandledInTunnel ==
    (tx.pc = "done" /\ tx.path = "tunnel") => EachSegmentOnce

\* a call in which a segment failed to encrypt and a later one was queued
C15_Witness ==
    /\ tx.pc = "done"
    /\ tx.path = "tunnel"
    /\ \E i \in tx.freed : \E k \in 1..Len(tx.queued) : tx.queued[k] > i

----------------------------------------------------------------------------
(* tc_vpn_egress and calculate_pacing_delay.  A port is a number 0..65535;  *)
(* udp->dest holds it in network byte order, and the program compares the   *)
(* 16-bit values as the CPU it was built for reads them.                    *)

SIP_PORT == 5060

SIP_TLS_PORT == 5061

GAME_PORT_LO == 27000

GAME_PORT_HI == 27100

TOS_EF == 184

TOS_AF41 == 136

TOS_AF31 == 104

\* target_bps = 10 * 10^9 and the numerator 10^9 * 8, both in units of 10^9:
\* the integer quotient of the two is the same in these units
GIGA == 1000000000

TARGET_GBPS == 10

BITS_PER_BYTE == 8

Endians == {"little", "big"}

\* bpf_htons(x) as a host integer: the two bytes swapped on a little-endian
\* build, x itself on a big-endian one
bpf_htons(e, x) == IF e = "little" THEN (x % 256) * 256 + x \div 256 ELSE x

\* const __u64 ns_per_byte = 1000000000ULL * 8 / target_bps;
ns_per_byte == ((NSEC_PER_SEC \div GIGA) * BITS_PER_BYTE) \div TARGET_GBPS

calculate_pacing_delay(pkt_len) == pkt_len * ns_per_byte

\* the DSCP marking of lines 277-287 for the value dest of udp->dest
Dscp(e, dest, tos) ==
    IF dest = bpf_htons(e, SIP_PORT) \/ dest = bpf_htons(e, SIP_TLS_PORT) THEN TOS_EF
    ELSE IF dest >= bpf_htons(e, GAME_PORT_LO) /\ dest <= bpf_htons(e, GAME_PORT_HI)
         THEN TOS_AF41
    ELSE IF dest = bpf_htons(e, WIREGUARD_PORT) THEN TOS_AF31
    ELSE tos

\* the skb has an IPv4 UDP packet whose UDP header lies inside the frame
UdpInFrame(k) ==
    /\ ETH_HLEN + IP_HLEN <= k.len
    /\ k.h_proto = "ETH_P_IP"
    /\ k.protocol = "UDP"
    /\ ETH_HLEN + k.ihl * 4 + UDP_HLEN <= k.len

\* the program on skb k at clock value t, built for endianness e
tc_egress(e, k, t) ==
    IF ETH_HLEN > k.len \/ k.h_proto # "ETH_P_IP" \/ ETH_HLEN + IP_HLEN > k.len
    THEN [skb |-> k, delay |-> 0, paced |-> FALSE, ret |-> "TC_ACT_OK"]
    ELSE LET k1    == IF UdpInFrame(k)
                      THEN [k EXCEPT !.tos = Dscp(e, bpf_htons(e, k.dest), k.tos)]
                      ELSE k
             delay == calculate_pacing_delay(k.pkt_len)
         IN  [skb |-> IF delay > 0 THEN [k1 EXCEPT !.tstamp = t + delay] ELSE k1,
              delay |-> delay, paced |-> TRUE, ret |-> "TC_ACT_OK"]

\* destination ports: around the game range, the ports the program names,
\* and some others
Ports ==
    (GAME_PORT_LO - 10 .. GAME_PORT_HI + 10)
    \cup {0, 53, 121, 443, SIP_PORT, SIP_TLS_PORT, WIREGUARD_PORT, 65535}

SkbLens == {10, 30, 38, 1500}

Skbs ==
    [len : SkbLens, pkt_len : SkbLens, h_proto : {"ETH_P_IP", "ETH_P_ARP"},
     ihl : {5}, protocol : {"UDP", "TCP"}, dest : Ports, tos : {0}, tstamp : {0}]

InitTc ==
    /\ RaceIdle
    /\ XdpIdle
    /\ DevIdle
    /\ HsIdle
    /\ RouteIdle
    /\ now = HalfTok
    /\ rate_limit_map = [ip \in IPs |-> NoEntry]
    /\ n_other = 0
    /\ hist = [ip \in IPs |-> NoHist]
    /\ PollIdle
    /\ SessIdle
    /\ \E e \in Endians, k \in Skbs :
            /\ k.len = k.pkt_len
            /\ tc = [pc |-> "ready", endian |-> e, skb |-> k, out |-> k, delay |-> 0,
                     paced |-> FALSE, ret |-> "none"]

tc_vpn_egress ==
    /\ tc.pc = "ready"
    /\ LET r == tc_egress(tc.endian, tc.skb, now)
       IN  tc' = [tc EXCEPT !.pc = "done", !.out = r.skb, !.delay = r.delay,
                            !.paced = r.paced, !.ret = r.ret]
    /\ UNCHANGED <<rlVars, raceVars, xdpVars, routeVars, hsVars, devVars,
                   pollVars, sessVars>>

NextTc == tc_vpn_egress

SpecTc == InitTc /\ [][NextTc]_vars

\* the tag the port number calls for
PortTag(port, tos) ==
    IF port \in {5060, 5061} THEN 184
    ELSE IF port \in 27000..27100 THEN 136
    ELSE IF port = 51820 THEN 104
    ELSE tos

\* C19: a UDP packet gets the tag 0x88 exactly if its destination port is in
\* 27000..27100, 0xb8 for ports 5060 and 5061, 0x68 for port 51820, and keeps
\* its tag for every other port
C19_TagByPortNumber ==
    (tc.pc = "done" /\ UdpInFrame(tc.skb)) =>
        tc.out.tos = PortTag(tc.skb.dest, tc.skb.tos)

\* C20: the delay of a packet of L > 0 bytes is 0.8 ns per byte, within the
\* rounding of the product to whole nanoseconds, and the earliest-transmit
\* time of the packet is set to now + delay
C20_PacingDelay ==
    (tc.pc = "done" /\ tc.paced /\ tc.skb.pkt_len > 0) =>
        /\ Abs(10 * tc.delay - 8 * tc.skb.pkt_len) < 10
        /\ tc.out.tstamp = now + tc.delay

----------------------------------------------------------------------------
(* undertheradar_poll, one loop iteration at a time, while the receive path *)
(* appends packets to wg->rx_queue.  A packet is its number in arrival      *)
(* order and the outcome undertheradar_packet_decrypt will have on it.      *)

\* packets that arrive in total, and the largest budget
MaxRxPkts == 4

MaxBudget == 2

PollMoreOffByOne(r) == r.work_done <= r.budget

\* while (work_done < budget)
PollMore(r) == r.work_done < r.budget

InitPoll ==
    /\ RaceIdle
    /\ XdpIdle
    /\ DevIdle
    /\ TcIdle
    /\ SessIdle
    /\ HsIdle
    /\ RouteIdle
    /\ now = 0
    /\ rate_limit_map = [ip \in IPs |-> NoEntry]
    /\ n_other = 0
    /\ hist = [ip \in IPs |-> NoHist]
    /\ \E b \in 0..MaxBudget : rx = [NoPoll EXCEPT !.budget = b]

PollFrame ==
    UNCHANGED <<rlVars, raceVars, xdpVars, routeVars, hsVars, devVars, tcVars,
                sessVars>>

\* the receive path queues a packet
Enqueue ==
    /\ rx.arrived < MaxRxPkts
    /\ \E o \in Outcomes :
            rx' = [rx EXCEPT !.arrived = @ + 1,
                             !.queue = Append(@, [id |-> rx.arrived + 1, decrypt |-> o])]
    /\ PollFrame

\* NAPI calls undertheradar_poll(napi, budget): int work_done = 0;
PollCall ==
    /\ rx.pc = "idle"
    /\ rx' = [rx EXCEPT !.pc = "loop", !.work_done = 0]
    /\ PollFrame

\* one iteration that dequeues a packet: lines 167-179
PollIter ==
    /\ rx.pc = "loop"
    /\ PollMore(rx)
    /\ rx.queue # <<>>
    /\ LET skb == Head(rx.queue)
       IN  rx' = IF skb.decrypt = "ok"
                 THEN [rx EXCEPT !.queue = Tail(@),
                                 !.delivered = Append(@, skb),
                                 !.work_done = @ + 1]
                 ELSE [rx EXCEPT !.queue = Tail(@),
                                 !.freed = @ \cup {skb},
                                 !.rx_errors = @ + 1]
    /\ PollFrame

\* the loop ends, by its condition or by the break on an empty queue:
\* lines 182-185
PollReturn ==
    /\ rx.pc = "loop"
    /\ ~PollMore(rx) \/ rx.queue = <<>>
    /\ rx' = [rx EXCEPT !.pc = "done",
                        !.complete = rx.work_done < rx.budget,
                        !.ret = rx.work_done]
    /\ PollFrame

NextPoll == Enqueue \/ PollCall \/ PollIter \/ PollReturn

\* NAPI runs a scheduled poll, and a running call takes its next step
SpecPoll ==
    /\ InitPoll
    /\ [][NextPoll]_vars
    /\ WF_vars(PollCall)
    /\ WF_vars(PollIter)
    /\ WF_vars(PollReturn)

Delivered == {rx.delivered[i] : i \in 1..Len(rx.delivered)}

\* what holds of the call at every step
PollAccounts ==
    /\ rx.work_done <= rx.budget
    /\ rx.work_done = Len(rx.delivered)
    /\ Cardinality(Delivered) = Len(rx.delivered)
    /\ Delivered \cap rx.freed = {}
    /\ \A skb \in Delivered : skb.decrypt = "ok"
    /\ \A skb \in rx.freed : skb.decrypt = "fail"
    /\ rx.rx_errors = Cardinality(rx.freed)
    /\ Cardinality(Delivered \cup rx.freed) + Len(rx.queue) = rx.arrived
    /\ rx.pc = "done" =>
            /\ rx.ret = rx.work_done
            /\ rx.complete <=> (rx.work_done < rx.budget)

\* C21: undertheradar_poll with budget B returns, with work_done <= B the
\* number of packets decrypted and delivered; every dequeued packet is
\* delivered once or freed and counted in rx_errors; polling is completed
\* exactly if work_done < B
C21_PollContract == []PollAccounts /\ <>(rx.pc = "done")

\* a call that returned having dequeued more packets than its budget
C21_Witness ==
    /\ rx.pc = "done"
    /\ rx.budget > 0
    /\ rx.freed # {}
    /\ Len(rx.delivered) + Cardinality(rx.freed) > rx.budget

----------------------------------------------------------------------------
(* SpecCycle: the retry timer left to itself, with no bound on the number   *)
(* of expiries.  jiffies wraps, as the kernel's counter does, and expiry is *)
(* decided as time_after_eq decides it, by the sign of the difference; the  *)
(* observer counts callbacks and initiations modulo SentWrap.  The receipt  *)
(* of a handshake response is not part of the two source files and is taken *)
(* from the specification: it establishes the session and resets the        *)
(* failure counter and the interval, and leaves the timer alone.            *)

\* the width of jiffies in the model, and the modulus of the observer's counters
JIFFIES_WRAP == 64

SentWrap == 4

\* (long)(a - b), for a and b on the wrapping counter
JiffiesDiff(a, b) ==
    LET d == (a - b) % JIFFIES_WRAP
    IN  IF d < JIFFIES_WRAP \div 2 THEN d ELSE d - JIFFIES_WRAP

TickCycle ==
    /\ JiffiesDiff(jiffies, peer.timer_expires) < MaxLate
    /\ jiffies' = (jiffies + 1) % JIFFIES_WRAP
    /\ UNCHANGED <<peer, hs, rm, rlVars, raceVars, xdpVars, routeVars,
                   devVars, tcVars, pollVars, sessVars>>

\* the timer expires and the callback runs
CallbackCycle ==
    /\ peer.timer_pending
    /\ JiffiesDiff(jiffies, peer.timer_expires) >= 0
    /\ peer' = [CheckHandshake(peer, jiffies) EXCEPT
                    !.timer_expires = @ % JIFFIES_WRAP]
    /\ hs' = [hs EXCEPT !.expiries = (@ + 1) % SentWrap,
                        !.sent = (@ + 1) % SentWrap,
                        !.fired_at = jiffies]
    /\ session' = [session EXCEPT !.sent_after = (session.state = "established")]
    /\ UNCHANGED <<jiffies, rm, rlVars, raceVars, xdpVars, routeVars, devVars,
                   tcVars, pollVars>>

\* a valid handshake response arrives
HandshakeResponse ==
    /\ session.state = "none"
    /\ session' = [state |-> "established", sent_after |-> FALSE]
    /\ peer' = [peer EXCEPT !.handshake_failures = 0,
                            !.handshake_retry_interval = hs.base]
    /\ UNCHANGED <<jiffies, hs, rm, rlVars, raceVars, xdpVars, routeVars,
                   devVars, tcVars, pollVars>>

NextCycle == TickCycle \/ CallbackCycle \/ HandshakeResponse

\* time passes, and the timer core runs the callback of an expired timer
SpecCycle ==
    /\ InitHS
    /\ [][NextCycle]_vars
    /\ WF_vars(TickCycle)
    /\ WF_vars(CallbackCycle)

\* every run of the callback sends one initiation and arms the timer with
\* the interval it has just set
EachRunSendsAndRearms ==
    [][hs'.expiries # hs.expiries =>
            /\ hs'.sent = (hs.sent + 1) % SentWrap
            /\ peer'.timer_pending
            /\ peer'.timer_expires =
                    (jiffies + peer'.handshake_retry_interval) % JIFFIES_WRAP]_vars

\* C22: every run of the callback sends exactly one initiation and re-arms
\* the timer, whatever the handshake state; with no cancel from outside,
\* initiations are sent again and again, also once the session is established
C22_RetryNeverStops ==
    /\ EachRunSendsAndRearms
    /\ []<>(hs.sent = 0) /\ []<>(hs.sent = 1)
    /\ (session.state = "established") ~> session.sent_after

\* an initiation went out after the session was established, and the timer
\* is armed again
C22_Witness ==
    /\ session.state = "established"
    /\ session.sent_after
    /\ peer.timer_pending
    /\ peer.handshake_retry_interval = MAX_HANDSHAKE_RETRY

====
